---- MODULE Spec2Model ----
(***************************************************************************)
(* The ERDDAP access notebook (05_ERDDAP_access.ipynb) as a state machine. *)
(* The kernel runs the code cells in document order and stops at the first *)
(* cell that raises.  Modelled cells: the catalog search (OOI and IOOS),   *)
(* the manual read of one dataset, the "ctdbp" filter, the construction    *)
(* and configuration of the IOOS client and the two fetch loops.  The      *)
(* cells that only draw (hvplot, hv.Overlay) or build the station overview *)
(* (alllonlat, dfll, dfr) assign none of the names modelled here and are   *)
(* left out.  The remote services (catalog search, dataset metadata, data  *)
(* retrieval, plot construction) are the environment: their replies are    *)
(* chosen by \E.                                                           *)
(***************************************************************************)
EXTENDS Integers, Sequences, FiniteSets, TLC

\* Longest catalog reply (number of rows) the environment returns.
MaxCatalog == 2
\* How many times a search cell is executed again before the next cell runs.
MaxReruns == 1

Clients == {"ooi", "ioos"}

ServerOf(c) ==
    IF c = "ooi" THEN "http://erddap.dataexplorer.oceanobservatories.org/erddap"
                 ELSE "http://erddap.sensors.ioos.us/erddap"

protocol == "tabledap"

min_time == "2018-07-01T00:00:00Z"
max_time == "2018-07-15T00:00:00Z"
standard_name == "sea_water_practical_salinity"
cdm_data_type == "timeseries"

kw == [standard_name |-> standard_name,
       min_lon |-> -127, max_lon |-> -122, min_lat |-> 44, max_lat |-> 48,
       min_time |-> min_time, max_time |-> max_time,
       cdm_data_type |-> cdm_data_type]

\* Dataset identifiers, as sequences of tokens ("ce01issm-...-ctdbpc000").
DatasetIds == { <<"ce01", "ctdbp">>, <<"ce02", "ctdbp">>, <<"ce04", "ctdmo">> }

\* dataset_id of the manual-read cell.
ManualId == <<"ce01", "ctdbp">>

None == <<"None">>
NoConstraints == << >>

\* ERDDAP(server=..., protocol=...): a client with nothing selected yet.
ERDDAP(srv, proto) ==
    [server |-> srv, protocol |-> proto, dataset_id |-> None,
     variables |-> << >>, constraints |-> NoConstraints, response |-> "html"]

\* The name of a client before its constructor cell has run.
Unbound == ERDDAP("None", "None")

\* {'time>=': min_time, 'time<=': max_time}
MissingUpperBound == << <<"time>=", min_time>> >>
TimeConstraints == << <<"time>=", min_time>>, <<"time<=", max_time>> >>

----------------------------------------------------------------------------
\* Pure helpers

\* str.contains(pat): pat occurs as a contiguous run of s.
Contains(s, pat) ==
    \E k \in 0..(Len(s) - Len(pat)) : SubSeq(s, k + 1, k + Len(pat)) = pat

RECURSIVE Ascending(_)
\* The numbers of the finite set S in ascending order: a boolean mask keeps
\* the selected positions in the order of the table.
Ascending(S) ==
    IF S = {} THEN << >>
    ELSE LET m == CHOOSE x \in S : \A y \in S : x <= y
         IN  <<m>> \o Ascending(S \ {m})

\* df['Dataset ID'].values
Column(df) == [k \in 1..Len(df) |-> df[k].DatasetID]

\* One row of the search reply for dataset id on client c's server.
Row(c, id) ==
    [Title |-> "title", Institution |-> c, DatasetID |-> id,
     tabledap |-> <<ServerOf(c), "tabledap">> \o id]

\* search_df[['Institution', 'Dataset ID', 'tabledap']]
Project(df) ==
    [k \in 1..Len(df) |->
        [Institution |-> df[k].Institution, DatasetID |-> df[k].DatasetID,
         tabledap |-> df[k].tabledap]]

\* search_df[search_df['Dataset ID'].str.contains("ctdbp")].reset_index()
CtdbpFilter(df) ==
    LET keep == Ascending({k \in 1..Len(df) :
                                Contains(df[k].DatasetID, <<"ctdbp">>)})
    IN  [k \in 1..Len(keep) |->
            [index |-> keep[k] - 1, Institution |-> df[keep[k]].Institution,
             DatasetID |-> df[keep[k]].DatasetID, tabledap |-> df[keep[k]].tabledap]]

\* Metadata tables a dataset may expose: (variable name, standard_name) in
\* declared order.
InfoTables ==
    { << [name |-> "temperature", standard_name |-> "sea_water_temperature"] >>,
      << [name |-> "temperature", standard_name |-> "sea_water_temperature"],
         [name |-> "salinity", standard_name |-> standard_name] >>,
      << [name |-> "sal_a", standard_name |-> standard_name],
         [name |-> "sal_b", standard_name |-> standard_name] >> }

\* get_var_by_attr(dataset_id=..., standard_name=tag): the names of the
\* variables of the table whose standard_name is tag.
get_var_by_attr(table, tag) ==
    LET hit == Ascending({k \in 1..Len(table) : table[k].standard_name = tag})
    IN  [k \in 1..Len(hit) |-> table[hit[k]].name]

\* ['time', get_var_by_attr(...)[0]]
Variables(matches) == <<"time", matches[1]>>

----------------------------------------------------------------------------
\* State

VARIABLES
    catalog,    \* per server: the dataset ids its catalog returns for kw, in order
    client,     \* the ERDDAP client objects ooi and ioos
    search_df,  \* the notebook's search_df table
    ctdbp,      \* the notebook's ctdbp table
    df_list,    \* fetched datasets
    hv_list,    \* plots
    idx,        \* position of the running for-loop in its sequence of ids
    pc,         \* <<client, cell>>: the cell to run next
    raised,     \* <<client, cell>> of the cell that raised, or NotRaised
    issued      \* requests sent since the accumulators were last reset

vars == <<catalog, client, search_df, ctdbp, df_list, hv_list, idx, pc, raised, issued>>

NotRaised == <<"-", "none">>
Halted == <<"-", "halted">>
Done == <<"-", "done">>

\* Sequences of distinct dataset ids of length at most MaxCatalog.
CatalogSeqs ==
    { s \in UNION { [1..n -> DatasetIds] : n \in 0..MaxCatalog } :
        \A j, k \in 1..Len(s) : j # k => s[j] # s[k] }

Outcomes == {"ok", "fail"}
SearchReplies == {"ok", "unreachable", "malformed"}
\* A metadata request fails or returns one of the tables.
InfoReplies ==
    {[status |-> "fail", table |-> << >>]}
        \cup {[status |-> "ok", table |-> t] : t \in InfoTables}

\* A request on the wire: the cell and the client object that sent it, what
\* it asked for, and the reply (status; for a metadata request the table).
Request(kind, cell, c, id, variables, constraints, status, table) ==
    [kind |-> kind, cell |-> cell, client |-> c, server |-> client[c].server,
     dataset_id |-> id, variables |-> variables, constraints |-> constraints,
     status |-> status, table |-> table]

\* A cell raised and nothing catches it: the run stops.
Swallowed(next) == next
Uncaught(next) == Halted

Init ==
    /\ catalog \in [Clients -> CatalogSeqs]
    /\ client = [c \in Clients |->
                    IF c = "ooi" THEN ERDDAP(ServerOf(c), protocol) ELSE Unbound]
    /\ search_df = << >>
    /\ ctdbp = << >>
    /\ df_list = << >>
    /\ hv_list = << >>
    /\ idx = 1
    /\ pc = <<"ooi", "search">>
    /\ raised = NotRaised
    /\ issued = << >>

----------------------------------------------------------------------------
\* Catalog search

\* ooi.get_search_url(response='csv', **kw)
get_search_url(c, response, kwargs) ==
    [server |-> client[c].server, protocol |-> client[c].protocol,
     response |-> response, kwargs |-> kwargs]

\* The catalog service's reply to a search url: one row per matching dataset.
CatalogReply(url) ==
    LET c == CHOOSE x \in Clients : ServerOf(x) = url.server
    IN  [k \in 1..Len(catalog[c]) |-> Row(c, catalog[c][k])]

\* search_df after the search cell got its reply.
SearchDfAccumulating(c) ==
    search_df \o Project(CatalogReply(get_search_url(c, "csv", kw)))
SearchDf(c) == Project(CatalogReply(get_search_url(c, "csv", kw)))

NextCell(c, cell) ==
    IF c = "ooi" THEN
        CASE cell = "search" -> <<"ooi", "manual">>
          [] cell = "manual" -> <<"ooi", "read">>
          [] cell = "read" -> <<"ooi", "filter">>
          [] cell = "filter" -> <<"ooi", "loop_init">>
          [] cell = "loop_init" -> <<"ooi", "loop">>
          [] OTHER -> <<"ioos", "create">>
    ELSE
        CASE cell = "create" -> <<"ioos", "search">>
          [] cell = "search" -> <<"ioos", "config">>
          [] cell = "config" -> <<"ioos", "loop_init">>
          [] cell = "loop_init" -> <<"ioos", "loop">>
          [] OTHER -> Done

NSearches(c, log) ==
    Cardinality({k \in 1..Len(log) : log[k].kind = "search" /\ log[k].client = c})

\* The body of the search cell: one request; a failed or unreadable reply
\* raises out of pd.read_csv(urlopen(...)) before search_df is assigned.
SearchCell(c, reply, next) ==
    /\ issued' = Append(issued,
            Request("search", "search", c, None, << >>, NoConstraints,
                    IF reply = "ok" THEN "ok" ELSE "fail", << >>))
    /\ IF reply = "ok"
       THEN /\ search_df' = SearchDf(c)
            /\ pc' = next
            /\ raised' = raised
       ELSE /\ search_df' = search_df
            /\ pc' = Uncaught(next)
            /\ raised' = <<c, "search">>
    /\ UNCHANGED <<catalog, client, ctdbp, df_list, hv_list, idx>>

Search(c) ==
    /\ pc = <<c, "search">>
    /\ \E reply \in SearchReplies : SearchCell(c, reply, NextCell(c, "search"))

\* The search cell executed once more before the next cell runs.
RerunSearch(c) ==
    /\ pc = NextCell(c, "search")
    /\ NSearches(c, issued) <= MaxReruns
    /\ \E reply \in SearchReplies : SearchCell(c, reply, pc)

----------------------------------------------------------------------------
\* Requests of a client

\* The metadata request get_var_by_attr sends for dataset id, and its reply.
InfoRequest(cell, c, id, info) ==
    Request("info", cell, c, id, << >>, NoConstraints, info.status, info.table)

\* The data request to_xarray builds from the client object as it is now.
DataRequest(cell, c, cl, status) ==
    Request("data", cell, c, cl.dataset_id, cl.variables, cl.constraints,
            status, << >>)

\* get_var_by_attr(...)[0] raises: the request failed, or nothing matches.
ResolveRaises(info) ==
    info.status = "fail" \/ get_var_by_attr(info.table, standard_name) = << >>

\* The dataset to_xarray returns for a request.
Dataset(req) ==
    [server |-> req.server, dataset_id |-> req.dataset_id,
     variables |-> req.variables, constraints |-> req.constraints]

\* ds[client.variables[-1]].hvplot(label=dataset_id)
Plot(cl, dataset_id) ==
    [label |-> dataset_id, variable |-> cl.variables[Len(cl.variables)]]

----------------------------------------------------------------------------
\* Manual read of one dataset (OOI)

\* The cell that configures ooi for ManualId.
ManualConfig ==
    /\ pc = <<"ooi", "manual">>
    /\ \E info \in InfoReplies :
        LET cl == [client["ooi"] EXCEPT !.dataset_id = ManualId,
                                        !.constraints = TimeConstraints,
                                        !.response = "csv"]
        IN  /\ issued' = Append(issued, InfoRequest("manual", "ooi", ManualId, info))
            /\ IF ResolveRaises(info)
               THEN /\ client' = [client EXCEPT !["ooi"] = cl]
                    /\ pc' = Uncaught(NextCell("ooi", "manual"))
                    /\ raised' = <<"ooi", "manual">>
               ELSE /\ client' = [client EXCEPT !["ooi"] =
                            [cl EXCEPT !.variables =
                                Variables(get_var_by_attr(info.table, standard_name))]]
                    /\ pc' = NextCell("ooi", "manual")
                    /\ raised' = raised
    /\ UNCHANGED <<catalog, search_df, ctdbp, df_list, hv_list, idx>>

\* ds = ooi.to_xarray(decode_times=True), outside any try.
ManualRead ==
    /\ pc = <<"ooi", "read">>
    /\ \E data \in Outcomes :
        /\ issued' = Append(issued, DataRequest("read", "ooi", client["ooi"], data))
        /\ IF data = "ok"
           THEN pc' = NextCell("ooi", "read") /\ raised' = raised
           ELSE pc' = Uncaught(NextCell("ooi", "read")) /\ raised' = <<"ooi", "read">>
    /\ UNCHANGED <<catalog, client, search_df, ctdbp, df_list, hv_list, idx>>

\* ctdbp = search_df[...contains("ctdbp")].reset_index()
Filter ==
    /\ pc = <<"ooi", "filter">>
    /\ ctdbp' = CtdbpFilter(search_df)
    /\ pc' = NextCell("ooi", "filter")
    /\ UNCHANGED <<catalog, client, search_df, df_list, hv_list, idx, raised, issued>>

----------------------------------------------------------------------------
\* The IOOS client

\* ioos = ERDDAP(server=..., protocol=protocol)
Construct ==
    /\ pc = <<"ioos", "create">>
    /\ client' = [client EXCEPT !["ioos"] = ERDDAP(ServerOf("ioos"), protocol)]
    /\ pc' = NextCell("ioos", "create")
    /\ UNCHANGED <<catalog, search_df, ctdbp, df_list, hv_list, idx, raised, issued>>

\* ioos.constraints = {...}; ioos.response = 'csv'
Config ==
    /\ pc = <<"ioos", "config">>
    /\ client' = [client EXCEPT !["ioos"].constraints = TimeConstraints,
                                !["ioos"].response = "csv"]
    /\ pc' = NextCell("ioos", "config")
    /\ UNCHANGED <<catalog, search_df, ctdbp, df_list, hv_list, idx, raised, issued>>

----------------------------------------------------------------------------
\* The fetch loops

\* The sequence the for statement of client c's loop iterates over.
LoopIdsStale(c) == Column(ctdbp)
LoopIds(c) == IF c = "ooi" THEN Column(ctdbp) ELSE Column(search_df)

\* client.dataset_id = dataset_id
SelectDatasetSkipped(cl, id) == cl
SelectDataset(cl, id) == [cl EXCEPT !.dataset_id = id]

\* client.variables = ['time', get_var_by_attr(...)[0]]
SelectVariables(cl, matches) == [cl EXCEPT !.variables = Variables(matches)]

\* df_list.append(ds): right after to_xarray returned.
DfAppendAfterPlot(df, ds, data, plot) ==
    IF data = "ok" /\ plot = "ok" THEN Append(df, ds) ELSE df
DfAppend(df, ds, data, plot) ==
    IF data = "ok" THEN Append(df, ds) ELSE df

\* hv_list.append(...hvplot(...)): after to_xarray and hvplot both returned.
HvAppendAlways(hv, h, data, plot) ==
    IF plot = "ok" THEN Append(hv, h) ELSE hv
HvAppend(hv, h, data, plot) ==
    IF data = "ok" /\ plot = "ok" THEN Append(hv, h) ELSE hv

\* except: pass -- the for statement goes on with the next id.
ExceptRetry(i) == i
ExceptPass(i) == i + 1

\* df_list = []; hv_list = []; the for statement starts.
LoopInit(c) ==
    /\ pc = <<c, "loop_init">>
    /\ df_list' = << >>
    /\ hv_list' = << >>
    /\ idx' = 1
    /\ issued' = << >>
    /\ pc' = NextCell(c, "loop_init")
    /\ UNCHANGED <<catalog, client, search_df, ctdbp, raised>>

\* One pass of the loop body for the id at idx.
LoopIteration(c) ==
    /\ pc = <<c, "loop">>
    /\ idx <= Len(LoopIds(c))
    /\ \E info \in InfoReplies, data \in Outcomes, plot \in Outcomes :
        LET dataset_id == LoopIds(c)[idx]
            cl1 == SelectDataset(client[c], dataset_id)
            inforeq == InfoRequest("loop", c, dataset_id, info)
        IN  IF ResolveRaises(info)
            THEN /\ client' = [client EXCEPT ![c] = cl1]
                 /\ issued' = Append(issued, inforeq)
                 /\ pc' = Uncaught(pc)
                 /\ raised' = <<c, "loop">>
                 /\ UNCHANGED <<df_list, hv_list, idx>>
            ELSE LET cl2 == SelectVariables(cl1,
                                get_var_by_attr(info.table, standard_name))
                     req == DataRequest("loop", c, cl2, data)
                 IN  /\ client' = [client EXCEPT ![c] = cl2]
                     /\ issued' = issued \o <<inforeq, req>>
                     /\ df_list' = DfAppend(df_list, Dataset(req), data, plot)
                     /\ hv_list' = HvAppend(hv_list, Plot(cl2, dataset_id), data, plot)
                     /\ idx' = IF data = "ok" /\ plot = "ok"
                               THEN idx + 1 ELSE ExceptPass(idx)
                     /\ UNCHANGED <<pc, raised>>
    /\ UNCHANGED <<catalog, search_df, ctdbp>>

\* The for statement has no id left.
LoopEnd(c) ==
    /\ pc = <<c, "loop">>
    /\ idx > Len(LoopIds(c))
    /\ pc' = NextCell(c, "loop")
    /\ UNCHANGED <<catalog, client, search_df, ctdbp, df_list, hv_list, idx,
                   raised, issued>>

----------------------------------------------------------------------------
Next ==
    \/ \E c \in Clients : Search(c)
    \/ \E c \in Clients : RerunSearch(c)
    \/ ManualConfig
    \/ ManualRead
    \/ Filter
    \/ Construct
    \/ Config
    \/ \E c \in Clients : LoopInit(c)
    \/ \E c \in Clients : LoopIteration(c)
    \/ \E c \in Clients : LoopEnd(c)

Spec == Init /\ [][Next]_vars

----------------------------------------------------------------------------
\* Vocabulary of the properties

Range(f) == {f[k] : k \in DOMAIN f}

\* The loop of client c has ended, by exhausting its ids or by an exception,
\* and no later cell has run.
LoopOver(c) ==
    \/ pc = NextCell(c, "loop")
    \/ pc = Halted /\ raised = <<c, "loop">>

IsLoopRequest(r, kind) == r.cell = "loop" /\ r.kind = kind

\* A series request of the loop for id returned a dataset.
Succeeded(c, id) ==
    \E k \in 1..Len(issued) :
        /\ IsLoopRequest(issued[k], "data") /\ issued[k].client = c
        /\ issued[k].dataset_id = id /\ issued[k].status = "ok"

\* The subsequence of ids whose series request succeeded.
SucceededIds(c) ==
    LET ids == LoopIds(c)
        keep == Ascending({k \in 1..Len(ids) : Succeeded(c, ids[k])})
    IN  [k \in 1..Len(keep) |-> ids[keep[k]]]

DfIds == [k \in 1..Len(df_list) |-> df_list[k].dataset_id]
HvLabels == [k \in 1..Len(hv_list) |-> hv_list[k].label]

\* C1: when the fetch loop has ended, df_list holds exactly the descriptors
\* whose series request succeeded, once each, in the order of the input.
C1_ResultsAreSucceededInOrder ==
    \A c \in Clients : LoopOver(c) => DfIds = SucceededIds(c)

\* Two descriptors, the first one failed, the second one is the result.
C1_Witness ==
    /\ pc = Done
    /\ Len(LoopIds("ioos")) = 2
    /\ DfIds = <<LoopIds("ioos")[2]>>
    /\ \E k \in 1..Len(issued) :
        /\ IsLoopRequest(issued[k], "data") /\ issued[k].status = "fail"
        /\ issued[k].dataset_id = LoopIds("ioos")[1]

\* C2 (as claimed): a descriptor none of whose variables declares the
\* requested standard_name is skipped and no error leaves the loop.
C2_EmptyMatchIsSkipped ==
    \A k \in 1..Len(issued) :
        ( /\ IsLoopRequest(issued[k], "info") /\ issued[k].status = "ok"
          /\ get_var_by_attr(issued[k].table, standard_name) = << >> )
        => raised = NotRaised

\* C3: a search that fails raises and stops the run: from then on no
\* request is sent, no loop is entered and nothing is collected.
C3_NoFetchAfterFailedSearch ==
    /\ [](raised[2] = "search" => pc = Halted)
    /\ [][raised[2] = "search" =>
            /\ issued' = issued
            /\ df_list' = df_list
            /\ pc'[2] \notin {"loop_init", "loop"}]_vars

C3_Witness ==
    /\ raised = <<"ioos", "search">>
    /\ pc = Halted
    /\ search_df # << >>
    /\ \A k \in 1..Len(issued) : issued[k].kind = "search" => issued[k].client = "ioos"

\* C4: every collected dataset comes from an id of the preceding search on
\* its server: for OOI an id of ctdbp, itself drawn from the OOI search;
\* for IOOS an id of the re-assigned search_df.
C4_ResultsComeFromSearch ==
    \A k \in 1..Len(df_list) :
        LET e == df_list[k] IN
        /\ e.server \in {ServerOf("ooi"), ServerOf("ioos")}
        /\ e.server = ServerOf("ooi") =>
              /\ e.dataset_id \in Range(Column(ctdbp))
              /\ e.dataset_id \in Range(catalog["ooi"])
        /\ e.server = ServerOf("ioos") =>
              /\ e.dataset_id \in Range(Column(search_df))
              /\ e.dataset_id \in Range(catalog["ioos"])

\* An IOOS result for an id the OOI search did not return.
C4_Witness ==
    /\ pc = Done
    /\ \E k \in 1..Len(df_list) :
        /\ df_list[k].server = ServerOf("ioos")
        /\ df_list[k].dataset_id \notin Range(catalog["ooi"])

\* C5 (as claimed): when the loop has ended, every descriptor of its input
\* has been processed.
C5_LoopEndsWithAllProcessed ==
    \A c \in Clients : LoopOver(c) => idx > Len(LoopIds(c))

\* C6: the loop sends at most one series request per descriptor, and a
\* descriptor whose request failed is not in the result.
C6_NoRetry ==
    /\ \A j, k \in 1..Len(issued) :
        ( /\ IsLoopRequest(issued[j], "data") /\ IsLoopRequest(issued[k], "data")
          /\ issued[j].client = issued[k].client
          /\ issued[j].dataset_id = issued[k].dataset_id ) => j = k
    /\ \A k \in 1..Len(issued) :
        (IsLoopRequest(issued[k], "data") /\ issued[k].status = "fail") =>
            \A n \in 1..Len(df_list) :
                ~ ( /\ df_list[n].dataset_id = issued[k].dataset_id
                    /\ df_list[n].server = issued[k].server )

\* The first request failed, a later one succeeded, and the loop is over.
C6_Witness ==
    /\ \E c \in Clients : LoopOver(c) /\ Len(LoopIds(c)) >= 2 /\ Len(df_list) >= 1
    /\ \E k \in 1..Len(issued) :
        /\ IsLoopRequest(issued[k], "data") /\ issued[k].status = "fail"
        /\ \E j \in (k + 1)..Len(issued) :
              IsLoopRequest(issued[j], "data") /\ issued[j].status = "ok"

NSearchOk(c, log) ==
    Cardinality({k \in 1..Len(log) :
        log[k].kind = "search" /\ log[k].client = c /\ log[k].status = "ok"})

\* C7: a search repeated with the same constraints against the unchanged
\* catalog returns the same table, and searching leaves the client as it was.
C7_SearchIdempotent ==
    [][\A c \in Clients :
          (NSearchOk(c, issued) >= 1 /\ NSearchOk(c, issued') > NSearchOk(c, issued))
              => (search_df' = search_df /\ client' = client)]_vars

\* Two successful searches of one client that returned rows.
C7_Witness ==
    \E c \in Clients : NSearchOk(c, issued) >= 2 /\ Len(search_df) >= 2

\* The first variable of the table, in declared order, that declares tag.
FirstTagged(table, tag) ==
    LET hits == {k \in 1..Len(table) : table[k].standard_name = tag}
        first == CHOOSE k \in hits : \A j \in hits : k <= j
    IN  table[first].name

\* How many metadata requests of the loop are among the first k requests.
InfoRank(k) ==
    Cardinality({j \in 1..k : IsLoopRequest(issued[j], "info")})

IsTimeWindow(cons) ==
    /\ Len(cons) = 2
    /\ \E k \in 1..Len(cons) : cons[k] = <<"time>=", min_time>>
    /\ \E k \in 1..Len(cons) : cons[k] = <<"time<=", max_time>>

\* C9: every series request of the loop carries the inclusive time window,
\* and a loop step changes neither the constraints nor the response format
\* of any client.
C9_TimeWindowKept ==
    /\ [](\A k \in 1..Len(issued) :
            IsLoopRequest(issued[k], "data") => IsTimeWindow(issued[k].constraints))
    /\ [](\A c \in Clients : pc = <<c, "loop">> =>
            IsTimeWindow(client[c].constraints) /\ client[c].response = "csv")
    /\ [][pc[2] = "loop" =>
            \A c \in Clients :
                /\ client'[c].constraints = client[c].constraints
                /\ client'[c].response = client[c].response]_vars

\* Two series requests sent by the IOOS loop.
C9_Witness ==
    /\ pc = <<"ioos", "loop">>
    /\ Cardinality({k \in 1..Len(issued) : IsLoopRequest(issued[k], "data")}) = 2

\* C10 (as claimed): hv_list and df_list have the same length and their
\* i-th entries belong to the same dataset.
C10_AccumulatorsAligned ==
    /\ Len(hv_list) = Len(df_list)
    /\ \A k \in 1..Len(hv_list) : hv_list[k].label = df_list[k].dataset_id

\* The position in df_list of the dataset a plot belongs to (0: none).
DfPos(label) ==
    IF \E n \in 1..Len(df_list) : df_list[n].dataset_id = label
    THEN CHOOSE n \in 1..Len(df_list) : df_list[n].dataset_id = label
    ELSE 0

\* C10 (amended): hv_list is never longer than df_list, every plot belongs
\* to a dataset of df_list and plots a variable of it, and the plots are in
\* the order of their datasets.
C10_PlotsAreSubsequence ==
    /\ Len(hv_list) <= Len(df_list)
    /\ \A k \in 1..Len(hv_list) :
        /\ DfPos(hv_list[k].label) >= k
        /\ hv_list[k].variable = df_list[DfPos(hv_list[k].label)].variables[2]
    /\ \A j, k \in 1..Len(hv_list) :
        j < k => DfPos(hv_list[j].label) < DfPos(hv_list[k].label)

\* The plot of the first dataset failed after the dataset was collected,
\* the plot of the second one succeeded.
C10_Witness ==
    /\ Len(df_list) = 2
    /\ Len(hv_list) = 1
    /\ HvLabels = <<df_list[2].dataset_id>>

====
